---------------------------- MODULE Spec2Model ----------------------------
(***************************************************************************)
(* Projective homography and panorama (ex1_student_solution.py).           *)
(*                                                                         *)
(* Numbers.  Point coordinates are floats in the program; here a           *)
(* coordinate is an integer number of 1/Den pixels, so that the            *)
(* astype(int) casts of the program are real truncations.  A homography    *)
(* is a 3x3 matrix with integer entries, written row-major as a 9-tuple    *)
(* (the layout of np.reshape(V[-1], (3, 3))).  Quotients are kept as       *)
(* exact fractions <<num, den>>; floating-point rounding is not modelled.  *)
(***************************************************************************)
EXTENDS Integers, Sequences, FiniteSets, TLC

VARIABLES pc, args, ret, i, mse_value, homography, iter, first_best

vars == <<pc, args, ret, i, mse_value, homography, iter, first_best>>

(***************************************************************************)
(* Bounds of the model.                                                    *)
(***************************************************************************)
\* a coordinate c stands for c / Den pixels
Den == 2
\* largest number of correspondences handed to the exact estimator alone
MaxNaive == 3
\* largest coordinate numerator of a matched point
MaxCoord == 3
\* largest max_err (pixels) tried
MaxErrBound == 3

(***************************************************************************)
(* Arithmetic helpers.                                                     *)
(***************************************************************************)
Abs(x) == IF x < 0 THEN 0 - x ELSE x

Sgn(x) == IF x < 0 THEN 0 - 1 ELSE IF x > 0 THEN 1 ELSE 0

RECURSIVE Gcd(_, _)
Gcd(a, b) == IF b = 0 THEN a ELSE Gcd(b, a % b)

\* int(n / d) of Python and astype(int) of numpy: truncation toward zero
TruncDiv(n, d) == Sgn(n) * Sgn(d) * (Abs(n) \div Abs(d))

\* the fraction n / d (d # 0) in lowest terms with a positive denominator
Frac(n, d) ==
    LET g == Gcd(Abs(n), Abs(d))
    IN  <<Sgn(d) * (n \div g), Abs(d) \div g>>

FracAdd(p, q) == Frac(p[1] * q[2] + q[1] * p[2], p[2] * q[2])

FracLess(p, q) == p[1] * q[2] < q[1] * p[2]

FracLeq(p, q) == p[1] * q[2] <= q[1] * p[2]

FracMax(p, q) == IF FracLess(p, q) THEN q ELSE p

\* int(p) for a fraction p
FracTrunc(p) == TruncDiv(p[1], p[2])

(***************************************************************************)
(* Homographies.                                                           *)
(***************************************************************************)
Translation(tx, ty) == <<1, 0, tx, 0, 1, ty, 0, 0, 1>>

\* H . [x, y, 1]^T, the three homogeneous coordinates
Apply(H, x, y) ==
    <<H[1] * x + H[2] * y + H[3],
      H[4] * x + H[5] * y + H[6],
      H[7] * x + H[8] * y + H[9]>>


(***************************************************************************)
(* CorrespondenceScorer: get_vectors_and_inliers, test_homography,         *)
(* meet_the_model_points.  A correspondence set is a pair of sequences of  *)
(* points <<x, y>> of equal length (the columns of the 2xN arrays).        *)
(***************************************************************************)
\* 10 ** 9, the dist_mse returned for an empty inlier set
Sentinel == 1000000000

\* a dist_mse value: a Python int, or the L2 norm sqrt(sq) of the residuals
DistInt(v) == [k |-> "int", v |-> v]

DistNorm(sq) == [k |-> "norm", sq |-> sq]

\* a < b on dist_mse values; sqrt(n/d) is compared with an int v >= 0 through
\* n < v*v*d, evaluated only where v*v is small
DistLess(a, b) ==
    CASE a.k = "int" /\ b.k = "int" -> a.v < b.v
      [] a.k = "norm" /\ b.k = "norm" -> FracLess(a.sq, b.sq)
      [] a.k = "norm" /\ b.k = "int" ->
            IF b.v > a.sq[1] THEN TRUE ELSE a.sq[1] < b.v * b.v * a.sq[2]
      [] a.k = "int" /\ b.k = "norm" ->
            IF a.v > b.sq[1] THEN FALSE ELSE a.v * a.v * b.sq[2] < b.sq[1]

\* .astype(np.int) on a coordinate: c / Den truncated toward zero
AsInt(c) == TruncDiv(c, Den)

\* the squared norm of src_vector_norm[:, j] - dst_vector[:, j] as a fraction,
\* for a point whose third homogeneous coordinate is not 0; both points are
\* cast to int before the homography is applied (lines 151-152)
ErrSq(H, s, d) ==
    LET m == Apply(H, AsInt(s[1]), AsInt(s[2]))
        ex == m[1] - AsInt(d[1]) * m[3]
        ey == m[2] - AsInt(d[2]) * m[3]
    IN  Frac(ex * ex + ey * ey, m[3] * m[3])

\* third homogeneous coordinate 0: 1 / 0 is inf, the column holds nan and the
\* comparison homography_err < max_err is False
Finite(H, s) == Apply(H, AsInt(s[1]), AsInt(s[2]))[3] # 0

\* homography_err < max_err, max_err = e / Den pixels, e > 0
ErrBelow(H, s, d, e) ==
    /\ Finite(H, s)
    /\ FracLess(ErrSq(H, s, d), Frac(e * e, Den * Den))

IsInlier(H, s, d, e) == ErrBelow(H, s, d, e)

\* the list inliers, as the set of its (1-based) indices
get_vectors_and_inliers(H, src, dst, e) ==
    {j \in 1..Len(dst) : IsInlier(H, src[j], dst[j], e)}

RECURSIVE SumErrSq(_, _, _, _)
SumErrSq(H, src, dst, S) ==
    IF S = {} THEN <<0, 1>>
    ELSE LET j == CHOOSE x \in S : TRUE
         IN  FracAdd(ErrSq(H, src[j], dst[j]), SumErrSq(H, src, dst, S \ {j}))

\* lines 194-202 for the list inliers
Score(H, src, dst, inliers) ==
    [fit_percent |-> <<Cardinality(inliers), Len(src)>>,
     dist_mse |-> IF inliers # {}
                  THEN DistNorm(SumErrSq(H, src, dst, inliers))
                  ELSE DistInt(Sentinel),
     inliers |-> inliers]

test_homography(H, src, dst, e) ==
    Score(H, src, dst, get_vectors_and_inliers(H, src, dst, e))

\* the subsequence of pts at the indices in S, in ascending order
RECURSIVE Select(_, _, _)
Select(pts, S, j) ==
    IF j > Len(pts) THEN <<>>
    ELSE (IF j \in S THEN <<pts[j]>> ELSE <<>>) \o Select(pts, S, j + 1)

meet_the_model_points(H, src, dst, e) ==
    LET inliers == get_vectors_and_inliers(H, src, dst, e)
    IN  <<Select(src, inliers, 1), Select(dst, inliers, 1)>>

(***************************************************************************)
(* Specification SpecScore: one call of test_homography.                   *)
(***************************************************************************)
\* the value of a name that holds no homography / no record
Unbound == <<>>

NoRecord == [none |-> TRUE]

\* the program's state outside a RANSAC run
Idle ==
    /\ i = 0
    /\ mse_value = DistInt(Sentinel + 1)
    /\ homography = Unbound
    /\ iter = NoRecord
    /\ first_best = NoRecord

ScorePoints == {<<x, y>> : x \in 0..MaxCoord, y \in 0..1}

ScoreHomographies ==
    {Translation(0, 0), Translation(1, 0), Translation(0 - 1, 1),
     <<1, 0, 0, 0, 1, 0, 0, 0, 2>>, <<1, 0, 0, 0, 1, 0, 1, 0, 0 - 1>>}

MaxErrs == 1..MaxErrBound

InitScore ==
    /\ pc = "call"
    /\ \E n \in 1..2 : \E src \in [1..n -> ScorePoints], dst \in [1..n -> ScorePoints] :
         \E H \in ScoreHomographies, e \in MaxErrs :
            args = [homography |-> H, match_p_src |-> src,
                    match_p_dst |-> dst, max_err |-> e]
    /\ ret = NoRecord
    /\ Idle

TestHomography ==
    /\ pc = "call"
    /\ ret' = test_homography(args.homography, args.match_p_src,
                              args.match_p_dst, args.max_err)
    /\ pc' = "done"
    /\ UNCHANGED <<args, i, mse_value, homography, iter, first_best>>

NextScore == TestHomography

SpecScore == InitScore /\ [][NextScore]_vars

(***************************************************************************)
(* HomographyEstimator: compute_homography_naive.                          *)
(*                                                                         *)
(* Rows of ref_mat are kept multiplied by Den * Den, which makes them      *)
(* integer and scales every singular value alike.  np.linalg.svd is an     *)
(* external routine: V[-1] is a unit vector of least |ref_mat . h|, any    *)
(* of them when the least singular value is repeated.  The model draws     *)
(* the result from the finite set FitHomographies and returns a member of  *)
(* least |ref_mat . h|^2 / |h|^2, any of them on a tie.                    *)
(***************************************************************************)
x_row(s, d) ==
    <<s[1] * Den, s[2] * Den, Den * Den, 0, 0, 0,
      0 - s[1] * d[1], 0 - s[2] * d[1], 0 - Den * d[1]>>

y_row(s, d) ==
    <<0, 0, 0, s[1] * Den, s[2] * Den, Den * Den,
      0 - s[1] * d[2], 0 - s[2] * d[2], 0 - Den * d[2]>>

ZeroRow == <<0, 0, 0, 0, 0, 0, 0, 0, 0>>

\* ref_mat[2 * j + 1:, :] = y_row : every row from index `from` (1-based) on
FillFrom(mat, from, row) ==
    [r \in 1..Len(mat) |-> IF r >= from THEN row ELSE mat[r]]

\* the y-row written from the x-row's own index on
RowStepOverXMutant(mat, src, dst, j) ==
    FillFrom([mat EXCEPT ![2 * j + 1] = x_row(src[j + 1], dst[j + 1])],
             2 * j + 1, y_row(src[j + 1], dst[j + 1]))

\* iteration j (0-based) of the loop, lines 47-51: the x-row to row 2j,
\* then the y-row to every row from 2j + 1 to the end (rows are 1-based here)
RowStep(mat, src, dst, j) ==
    FillFrom([mat EXCEPT ![2 * j + 1] = x_row(src[j + 1], dst[j + 1])],
             2 * j + 2, y_row(src[j + 1], dst[j + 1]))

\* the loop of lines 44-51 from iteration j (0-based) on
RECURSIVE BuildRows(_, _, _, _)
BuildRows(mat, src, dst, j) ==
    IF j >= Len(dst) THEN mat
    ELSE BuildRows(RowStep(mat, src, dst, j), src, dst, j + 1)

\* ref_mat as handed to np.linalg.svd
ref_mat(src, dst) ==
    BuildRows([r \in 1..(2 * Len(dst)) |-> ZeroRow], src, dst, 0)

Dot(u, v) ==
    u[1] * v[1] + u[2] * v[2] + u[3] * v[3] + u[4] * v[4] + u[5] * v[5]
        + u[6] * v[6] + u[7] * v[7] + u[8] * v[8] + u[9] * v[9]

\* |mat . h|^2, rows r..Len(mat)
RECURSIVE Residual(_, _, _)
Residual(mat, h, r) ==
    IF r > Len(mat) THEN 0
    ELSE LET t == Dot(mat[r], h) IN t * t + Residual(mat, h, r + 1)

\* the homographies the solve may return: whole-pixel translations, and for
\* collinear points (y = 0) two more null vectors of ref_mat: one that sends
\* every such point to the zero vector, one that differs from the identity
\* only off the line
FitHomographies ==
    {Translation(tx, ty) : tx \in (0 - 2)..2, ty \in (0 - 1)..1}
        \cup {<<0, 1, 0, 0, 0, 0, 0, 0, 0>>, <<1, 0, 0, 0, 2, 0, 0, 0, 1>>}

\* U, S, V = svd(ref_mat); H = reshape(V[-1], (3, 3)): the possible results
\* the members of R = {<<h, |mat.h|^2, |h|^2>>} of least |mat.h|^2 / |h|^2
LeastQuotient(R) ==
    {t[1] : t \in {t \in R : \A u \in R : t[2] * u[3] <= u[2] * t[3]}}

SvdLast(mat) ==
    UNION {LeastQuotient(R) :
             R \in {{<<h, Residual(mat, h, 1), Dot(h, h)>> : h \in FitHomographies}}}

NaiveRaisesBelowFourMutant(src, dst) ==
    IF Len(dst) < 4
    THEN {[status |-> "InsufficientCorrespondences", H |-> Unbound]}
    ELSE {[status |-> "ok", H |-> h] : h \in SvdLast(ref_mat(src, dst))}

compute_homography_naive(src, dst) ==
    {[status |-> "ok", H |-> h] : h \in SvdLast(ref_mat(src, dst))}

(***************************************************************************)
(* Specification SpecNaive: one call of compute_homography_naive.          *)
(***************************************************************************)
NaivePoints == {<<0, 0>>, <<MaxCoord, 0>>, <<1, Den>>}

InitNaive ==
    /\ pc = "call"
    /\ \E n \in 1..MaxNaive :
         \E src \in [1..n -> NaivePoints], dst \in [1..n -> NaivePoints] :
            args = [match_p_src |-> src, match_p_dst |-> dst]
    /\ ret = NoRecord
    /\ Idle

ComputeHomographyNaive ==
    /\ pc = "call"
    /\ ret' \in compute_homography_naive(args.match_p_src, args.match_p_dst)
    /\ pc' = "done"
    /\ UNCHANGED <<args, i, mse_value, homography, iter, first_best>>

NextNaive == ComputeHomographyNaive

SpecNaive == InitNaive /\ [][NextNaive]_vars

(***************************************************************************)
(* Specification SpecRows: compute_homography_naive with its row-building  *)
(* loop taken one iteration at a time.  i is the loop variable and         *)
(* iter.ref_mat the local ref_mat.                                         *)
(***************************************************************************)
InitRows ==
    /\ pc = "loop"
    /\ \E n \in 1..MaxNaive :
         \E src \in [1..n -> NaivePoints], dst \in [1..n -> NaivePoints] :
            /\ args = [match_p_src |-> src, match_p_dst |-> dst]
            /\ iter = [ref_mat |-> [r \in 1..(2 * n) |-> ZeroRow]]
    /\ ret = NoRecord
    /\ i = 0
    /\ mse_value = NoRecord
    /\ homography = Unbound
    /\ first_best = NoRecord

\* one iteration of the loop of lines 44-51
RowsIterate ==
    /\ pc = "loop"
    /\ i < Len(args.match_p_dst)
    /\ iter' = [ref_mat |-> RowStep(iter.ref_mat, args.match_p_src, args.match_p_dst, i)]
    /\ i' = i + 1
    /\ UNCHANGED <<pc, args, ret, mse_value, homography, first_best>>

\* lines 53-57 once the loop is over
RowsSolve ==
    /\ pc = "loop"
    /\ i = Len(args.match_p_dst)
    /\ ret' \in {[status |-> "ok", H |-> h] : h \in SvdLast(iter.ref_mat)}
    /\ pc' = "done"
    /\ UNCHANGED <<args, i, mse_value, homography, iter, first_best>>

NextRows == RowsIterate \/ RowsSolve

SpecRows == InitRows /\ [][NextRows]_vars

(***************************************************************************)
(* Properties of the row-building loop, checked under SpecRows.            *)
(***************************************************************************)
\* C12: when the loop is over, the 2N x 9 matrix handed to the SVD holds for
\* every correspondence j its x-row at row 2j and its y-row at row 2j + 1
\* (0-based), although every iteration wrote its y-row to all rows from
\* 2j + 1 to the end.
C12_OneRowPairPerCorrespondence ==
    (i = Len(args.match_p_dst)) =>
        /\ Len(iter.ref_mat) = 2 * Len(args.match_p_dst)
        /\ \A j \in 1..Len(args.match_p_dst) :
              /\ iter.ref_mat[2 * j - 1] = x_row(args.match_p_src[j], args.match_p_dst[j])
              /\ iter.ref_mat[2 * j] = y_row(args.match_p_src[j], args.match_p_dst[j])

\* the matrix went to the SVD after an earlier iteration's y-row had filled
\* the rows of a later correspondence with another row than theirs
C12_OverwrittenWitness ==
    /\ pc = "done"
    /\ Len(args.match_p_dst) >= 2
    /\ y_row(args.match_p_src[1], args.match_p_dst[1])
          \notin {iter.ref_mat[3], iter.ref_mat[4]}


(***************************************************************************)
(* RobustHomographyEstimator: compute_homography (RANSAC).                 *)
(*                                                                         *)
(* inliers_percent is a fraction w = <<num, den>>.  The local variables    *)
(* of the call are i (iterations done), mse_value and homography; the      *)
(* name homography is bound only by the assignment of line 286.            *)
(***************************************************************************)
\* p = 0.99, n = 4 (lines 260, 264)
SampleSize == 4

\* int(np.ceil(np.log(1 - p) / np.log(1 - w ** n))) for the fractions w used
\* here: log(0.01)/log(0) is -0.0 for w = 1, and log(0.01)/log(0.5904) = 8.74
CeilLogRatio(w) ==
    CASE w = <<1, 1>> -> 0
      [] w = <<4, 5>> -> 9

\* k after lines 266 and 271
IterationCount(w) == (CeilLogRatio(w) + 1) * 10

\* sample(range(N_size), n): n pairwise distinct indices.  Their order only
\* permutes the rows of ref_mat, which leaves |ref_mat . h| unchanged, so a
\* sample is kept as the set of its (1-based) indices
Samples(N) == {S \in SUBSET (1..N) : Cardinality(S) = SampleSize}

\* fit_percent >= w
FitReaches(fit, w) == fit[1] * w[2] >= w[1] * fit[2]

ImprovesOrTiesMutant(dist_mse, best) == ~DistLess(best, dist_mse)

\* dist_mse < mse_value (line 285)
Improves(dist_mse, best) == DistLess(dist_mse, best)

RansacSources ==
    {<<<<0, 0>>, <<Den, 0>>, <<0, Den>>, <<Den, Den>>, <<1, 1>>>>,
     <<<<0, 0>>, <<1, 0>>, <<2, 0>>, <<3, 0>>, <<4, 0>>>>}

RansacOffsets == {<<0, 0>>, <<2 * Den, 0>>}

RansacW == {<<1, 1>>, <<4, 5>>}

\* the calls of compute_homography the model makes
RansacInputs ==
    {[match_p_src |-> base,
      match_p_dst |-> [j \in 1..Len(base) |->
          <<base[j][1] + off[j][1], base[j][2] + off[j][2]>>],
      inliers_percent |-> w, max_err |-> e] :
        base \in RansacSources, off \in [1..5 -> RansacOffsets],
        w \in RansacW, e \in MaxErrs}

\* the locals computed_homography, fit_percent and dist_mse after line 284,
\* and whether the branch of line 282 was taken
Locals(H, score, accepted) ==
    [computed_homography |-> H, fit_percent |-> score.fit_percent,
     dist_mse |-> score.dist_mse, accepted |-> accepted]

\* lines 278-284 for one call a and candidate cand: the candidate's score,
\* and for an accepted candidate every refined homography the second solve
\* may return, with its score
PassesFor(a, cand) ==
    UNION {IF FitReaches(first.fit_percent, a.inliers_percent)
           THEN {Locals(r.H, test_homography(r.H, a.match_p_src, a.match_p_dst,
                                             a.max_err), TRUE) :
                   r \in compute_homography_naive(
                            Select(a.match_p_src, first.inliers, 1),
                            Select(a.match_p_dst, first.inliers, 1))}
           ELSE {Locals(cand, first, FALSE)} :
             first \in {test_homography(cand, a.match_p_src, a.match_p_dst,
                                        a.max_err)}}

\* everything one pass of the loop body can compute in call a, up to the test
\* of line 285
Passes(a) ==
    UNION {UNION {PassesFor(a, c.H) :
                    c \in compute_homography_naive(Select(a.match_p_src, S, 1),
                                                   Select(a.match_p_dst, S, 1))} :
             S \in Samples(Len(a.match_p_src))}

\* Passes, tabulated once for the calls of the model
PassTable == [a \in RansacInputs |-> Passes(a)]

InitRansac ==
    /\ pc = "loop"
    /\ args \in RansacInputs
    /\ ret = NoRecord
    /\ i = 0
    /\ mse_value = DistInt(Sentinel + 1)
    /\ homography = Unbound
    /\ iter = NoRecord
    /\ first_best = NoRecord

\* one pass of the loop body (lines 275-287)
RansacIterate ==
    /\ pc = "loop"
    /\ i < IterationCount(args.inliers_percent)
    /\ \E p \in PassTable[args] :
         /\ iter' = p
         /\ IF p.accepted /\ Improves(p.dist_mse, mse_value)
            THEN homography' = p.computed_homography /\ mse_value' = p.dist_mse
            ELSE UNCHANGED <<homography, mse_value>>
         /\ first_best' =
              IF p.accepted /\ (first_best = NoRecord
                                \/ DistLess(p.dist_mse, first_best.dist_mse))
              THEN [H |-> p.computed_homography, dist_mse |-> p.dist_mse]
              ELSE first_best
    /\ i' = i + 1
    /\ UNCHANGED <<pc, args, ret>>

\* return homography (line 288) with the name bound
RansacReturn ==
    /\ pc = "loop"
    /\ i = IterationCount(args.inliers_percent)
    /\ homography # Unbound
    /\ pc' = "done"
    /\ ret' = [status |-> "ok", H |-> homography]
    /\ UNCHANGED <<args, i, mse_value, homography, iter, first_best>>

\* return homography (line 288) with the name never assigned: Python raises
\* UnboundLocalError
RansacReturnUnbound ==
    /\ pc = "loop"
    /\ i = IterationCount(args.inliers_percent)
    /\ homography = Unbound
    /\ pc' = "done"
    /\ ret' = [status |-> "UnboundLocalError", H |-> Unbound]
    /\ UNCHANGED <<args, i, mse_value, homography, iter, first_best>>

NextRansac == RansacIterate \/ RansacReturn \/ RansacReturnUnbound

SpecRansac == InitRansac /\ [][NextRansac]_vars

(***************************************************************************)
(* Specification SpecDraws: compute_homography from its first line, with   *)
(* the computation of k as a step of its own and the indices drawn by      *)
(* sample() kept among the locals of a pass.                               *)
(***************************************************************************)
\* an inliers_percent so small that w ** n is below half the spacing of the
\* doubles under 1: (1e-5) ** 4 = 1e-20 < 2 ** -54
TinyW == <<1, 100000>>

\* line 266 in double precision for the fractions w used here: when
\* 1 - w ** n rounds to 1.0 its log is 0.0, the quotient is -inf, np.ceil
\* keeps it and int() raises OverflowError
CountOverflows(w) == w = TinyW

DrawW == RansacW \cup {TinyW}

\* the square with its centre, sent to itself or with the last destination
\* point shifted
DrawInputs ==
    {[match_p_src |-> <<<<0, 0>>, <<Den, 0>>, <<0, Den>>, <<Den, Den>>, <<1, 1>>>>,
      match_p_dst |-> <<<<0, 0>>, <<Den, 0>>, <<0, Den>>, <<Den, Den>>,
                        <<1 + off, 1>>>>,
      inliers_percent |-> w, max_err |-> e] :
        off \in {0, 2 * Den}, w \in DrawW, e \in MaxErrs}

\* Passes(a) with random_selected_points (line 275) among the locals
SampledPasses(a) ==
    UNION {{[random_selected_points |-> S] @@ p :
              p \in UNION {PassesFor(a, c.H) :
                             c \in compute_homography_naive(
                                      Select(a.match_p_src, S, 1),
                                      Select(a.match_p_dst, S, 1))}} :
             S \in Samples(Len(a.match_p_src))}

\* SampledPasses, tabulated once for the calls of SpecDraws
DrawTable == [a \in DrawInputs |-> SampledPasses(a)]

InitDraws ==
    /\ pc = "count"
    /\ args \in DrawInputs
    /\ ret = NoRecord
    /\ i = 0
    /\ mse_value = DistInt(Sentinel + 1)
    /\ homography = Unbound
    /\ iter = NoRecord
    /\ first_best = NoRecord

\* lines 260-271: k is computed, or int() raises
DrawCount ==
    /\ pc = "count"
    /\ IF CountOverflows(args.inliers_percent)
       THEN pc' = "done" /\ ret' = [status |-> "OverflowError", H |-> Unbound]
       ELSE pc' = "loop" /\ ret' = ret
    /\ UNCHANGED <<args, i, mse_value, homography, iter, first_best>>

\* one pass of the loop body (lines 275-287)
DrawIterate ==
    /\ pc = "loop"
    /\ i < IterationCount(args.inliers_percent)
    /\ \E p \in DrawTable[args] :
         /\ iter' = p
         /\ IF p.accepted /\ Improves(p.dist_mse, mse_value)
            THEN homography' = p.computed_homography /\ mse_value' = p.dist_mse
            ELSE UNCHANGED <<homography, mse_value>>
    /\ i' = i + 1
    /\ UNCHANGED <<pc, args, ret, first_best>>

NextDraws == DrawCount \/ DrawIterate \/ RansacReturn \/ RansacReturnUnbound

SpecDraws == InitDraws /\ [][NextDraws]_vars

(***************************************************************************)
(* Properties of the loop of compute_homography, checked under SpecDraws.  *)
(***************************************************************************)
\* the loop is left only after pass k, and every pass drew SampleSize
\* pairwise distinct indices of the correspondences
LoopRunsToCount ==
    /\ (pc = "loop" => i <= IterationCount(args.inliers_percent))
    /\ (iter # NoRecord =>
          /\ Cardinality(iter.random_selected_points) = SampleSize
          /\ iter.random_selected_points \subseteq 1..Len(args.match_p_src))

\* the claim of C13 for the calls in which line 266 gives a count
C13_RunsExactlyKWhenCounted ==
    /\ (pc # "count" /\ ~CountOverflows(args.inliers_percent)) => LoopRunsToCount
    /\ (pc = "done" /\ ~CountOverflows(args.inliers_percent)) =>
          i = IterationCount(args.inliers_percent)

\* C13: for N >= 4 correspondences and 0 < inliers_percent <= 1 the loop
\* makes exactly k = 10 * (ceil(log(1 - 0.99) / log(1 - w^4)) + 1) passes, k
\* being fixed before the loop; it is not left early, every pass draws 4
\* pairwise distinct indices, and the loop reaches its end.
C13_RunsExactlyK ==
    /\ C13_RunsExactlyKWhenCounted
    /\ pc = "done" =>
          /\ ret.status \in {"ok", "UnboundLocalError"}
          /\ i = IterationCount(args.inliers_percent)


(***************************************************************************)
(* ForwardWarper: compute_forward_homography_slow and _fast.               *)
(*                                                                         *)
(* An image is a record [rows, cols, px] with px a function from           *)
(* <<row, col>> (0-based) to a pixel; a pixel is one value standing for    *)
(* its channels, which both warpers copy together.                         *)
(***************************************************************************)
\* np.zeros(dst_image_shape, dtype=int)
Zeros(rows, cols) ==
    [rows |-> rows, cols |-> cols,
     px |-> [q \in (0..(rows - 1)) \X (0..(cols - 1)) |-> 0]]

\* the n-th (1-based) source pixel <<row, col>> of the two nested loops of
\* lines 84-85: rows outside, columns inside
RowMajor(img, n) == <<(n - 1) \div img.cols, (n - 1) % img.cols>>

\* the n-th (1-based) column of meshgrid_image as <<row, col>>:
\* np.indices((W, H)).reshape(2, -1) runs over x = 0..W-1 outside and
\* y = 0..H-1 inside
IndicesOrder(img, n) == <<(n - 1) % img.rows, (n - 1) \div img.rows>>

\* the range tests of lines 90 and 132
InCanvas(canvas, x, y) ==
    x >= 0 /\ x < canvas.cols /\ y >= 0 /\ y < canvas.rows

Plant(canvas, x, y, v) ==
    [canvas EXCEPT !.px = [@ EXCEPT ![<<y, x>>] = v]]

\* lines 86-92 for source pixels n, n+1, ...: int() of inf raises
\* OverflowError and int() of nan raises ValueError
RECURSIVE SlowFrom(_, _, _, _)
SlowFrom(H, src, canvas, n) ==
    IF n > src.rows * src.cols THEN [status |-> "ok", image |-> canvas]
    ELSE LET rc == RowMajor(src, n)
             t == Apply(H, rc[2], rc[1])
         IN  IF t[3] = 0
             THEN [status |-> IF t[1] = 0 THEN "ValueError" ELSE "OverflowError",
                   image |-> NoRecord]
             ELSE LET x == TruncDiv(t[1], t[3])
                      y == TruncDiv(t[2], t[3])
                  IN  SlowFrom(H, src,
                               IF InCanvas(canvas, x, y)
                               THEN Plant(canvas, x, y, src.px[rc])
                               ELSE canvas,
                               n + 1)

compute_forward_homography_slow(H, src, shape) ==
    SlowFrom(H, src, Zeros(shape[1], shape[2]), 1)

\* np.divide(a, b).astype(np.int) for one element.  A division by zero
\* gives inf or nan (a = 0), whose cast to int is undefined in C: inf
\* becomes the least or the greatest integer, outside every canvas; nan
\* becomes the least integer or, on builds with saturating conversions, 0.
\* nan_as is "out" or "zero"; OutOfRange stands for the least integer
OutOfRange == 0 - 1

DivideAsInt(a, b, nan_as) ==
    IF b # 0 THEN TruncDiv(a, b)
    ELSE IF a = 0 /\ nan_as = "zero" THEN 0 ELSE OutOfRange

\* line 140 for the selected points n, n+1, ... of the flattened grid: an
\* index pair that occurs more than once is assigned in the order of the
\* flattened arrays, so the last one stays (numpy documents no order)
RECURSIVE FastFrom(_, _, _, _, _)
FastFrom(H, src, canvas, n, nan_as) ==
    IF n > src.rows * src.cols THEN canvas
    ELSE LET rc == IndicesOrder(src, n)
             t == Apply(H, rc[2], rc[1])
             x == DivideAsInt(t[1], t[3], nan_as)
             y == DivideAsInt(t[2], t[3], nan_as)
         IN  FastFrom(H, src,
                      IF InCanvas(canvas, x, y)
                      THEN Plant(canvas, x, y, src.px[rc])
                      ELSE canvas,
                      n + 1, nan_as)

compute_forward_homography_fast(H, src, shape, nan_as) ==
    [status |-> "ok", image |-> FastFrom(H, src, Zeros(shape[1], shape[2]), 1, nan_as)]

(***************************************************************************)
(* Specification SpecWarp: both warpers on the same arguments.             *)
(***************************************************************************)
\* largest side of a source image and of a canvas
MaxSide == 2
\* largest value of the first pixel of a source image
MaxPixel == 2

\* the r x c image whose pixels, in row-major order, are b, b + 1, ...: no
\* two pixels alike, so that a canvas tells which source pixel it holds
Numbered(r, c, b) ==
    [rows |-> r, cols |-> c,
     px |-> [q \in (0..(r - 1)) \X (0..(c - 1)) |-> b + q[1] * c + q[2]]]

Images ==
    {Numbered(r, c, b) : r \in 1..MaxSide, c \in 1..MaxSide, b \in 0..MaxPixel}

WarpHomographies ==
    {Translation(0, 0), Translation(1, 0), Translation(0 - 1, 1),
     <<1, 1, 0, 0, 0, 0, 0, 0, 1>>, <<1, 0, 0, 0, 1, 0, 0, 0, 2>>,
     <<1, 0, 0, 0, 1, 0, 1, 0, 0 - 1>>, <<0, 1, 0, 0, 0, 0, 0, 0, 0>>,
     <<4, 0, 0 - 3, 0, 4, 0, 0, 0, 4>>}

InitWarp ==
    /\ pc = "call"
    /\ \E H \in WarpHomographies, src \in Images :
         \E shape \in (1..MaxSide) \X (1..(MaxSide + 1)) :
            args = [homography |-> H, src_image |-> src, dst_image_shape |-> shape]
    /\ ret = [slow |-> NoRecord, fast |-> NoRecord]
    /\ Idle

ForwardSlow ==
    /\ pc = "call"
    /\ ret.slow = NoRecord
    /\ ret' = [ret EXCEPT !.slow =
                 compute_forward_homography_slow(args.homography, args.src_image,
                                                 args.dst_image_shape)]
    /\ pc' = IF ret.fast = NoRecord THEN "call" ELSE "done"
    /\ UNCHANGED <<args, i, mse_value, homography, iter, first_best>>

ForwardFast ==
    /\ pc = "call"
    /\ ret.fast = NoRecord
    /\ \E nan_as \in {"out", "zero"} :
         ret' = [ret EXCEPT !.fast =
                   compute_forward_homography_fast(args.homography, args.src_image,
                                                   args.dst_image_shape, nan_as)]
    /\ pc' = IF ret.slow = NoRecord THEN "call" ELSE "done"
    /\ UNCHANGED <<args, i, mse_value, homography, iter, first_best>>

NextWarp == ForwardSlow \/ ForwardFast

SpecWarp == InitWarp /\ [][NextWarp]_vars

(***************************************************************************)
(* Properties of the forward warpers, checked under SpecWarp.              *)
(***************************************************************************)
\* C4: on the same homography, source image and canvas shape the vectorized
\* warper returns the canvas the iterative warper returns; where two source
\* pixels land on one cell, both keep the one later in row-major order.
C4_SlowEqualsFast ==
    (pc = "done" /\ ret.slow.status = "ok") =>
        (ret.fast.status = "ok" /\ ret.fast.image = ret.slow.image)

\* the exact image H . [col, row, 1] of source pixel rc = <<row, col>>,
\* normalized, lies on the canvas: its column is in [-1/2, cols) and its
\* row in [-1/2, rows), the range that the nearest cell or the cell below
\* it is a cell of the canvas
MapsOntoCanvas(H, rc, shape) ==
    LET t == Apply(H, rc[2], rc[1])
    IN  /\ t[3] # 0
        /\ FracLeq(Frac(0 - 1, 2), Frac(t[1], t[3]))
        /\ FracLess(Frac(t[1], t[3]), <<shape[2], 1>>)
        /\ FracLeq(Frac(0 - 1, 2), Frac(t[2], t[3]))
        /\ FracLess(Frac(t[2], t[3]), <<shape[1], 1>>)

\* the canvases that were returned
ReturnedCanvases ==
    {r.image : r \in {w \in {ret.slow, ret.fast} : w # NoRecord /\ w.status = "ok"}}

\* the identity homography on a canvas at least as large as the source
\* gives the source at the source's coordinates and zero elsewhere
C11_IdentityReproducesSource ==
    (/\ pc \in {"call", "done"}
     /\ args.homography = Translation(0, 0)
     /\ args.dst_image_shape[1] >= args.src_image.rows
     /\ args.dst_image_shape[2] >= args.src_image.cols) =>
        \A canvas \in ReturnedCanvases :
            \A q \in DOMAIN canvas.px :
                canvas.px[q] = IF q \in DOMAIN args.src_image.px
                               THEN args.src_image.px[q] ELSE 0

\* a cell that is not zero holds a source pixel whose image is on the canvas
C11_OnlyInBoundsPixelsWrite ==
    \A canvas \in ReturnedCanvases :
        \A q \in DOMAIN canvas.px :
            canvas.px[q] # 0 =>
                \E rc \in DOMAIN args.src_image.px :
                    /\ args.src_image.px[rc] = canvas.px[q]
                    /\ MapsOntoCanvas(args.homography, rc, args.dst_image_shape)

\* C11: with the identity homography and a canvas at least as large as the
\* source, each forward warper returns the source at every source coordinate
\* and zero at every other cell; for any homography, a cell that no
\* in-bounds source pixel maps to stays zero and a source pixel that maps
\* outside the canvas writes nothing.
C11_ForwardWarpContract ==
    C11_IdentityReproducesSource /\ C11_OnlyInBoundsPixelsWrite

(***************************************************************************)
(* PanoramaGeometry: find_panorama_shape.  Only the shapes <<rows, cols>>  *)
(* of the two images are read.                                             *)
(***************************************************************************)
FracSub(p, q) == Frac(p[1] * q[2] - q[1] * p[2], p[2] * q[2])

FracAbs(p) == <<Abs(p[1]), p[2]>>

FracInt(n) == <<n, 1>>

\* max([0, ...]) over a finite set of fractions
RECURSIVE FracMaxOver(_)
FracMaxOver(S) ==
    IF S = {} THEN <<0, 1>>
    ELSE LET p == CHOOSE q \in S : TRUE IN FracMax(p, FracMaxOver(S \ {p}))

\* src_edges (lines 368-373): the four corners as (col, row), 1-indexed
SrcEdges(src_shape) ==
    {<<1, 1>>, <<src_shape[2], 1>>, <<1, src_shape[1]>>,
     <<src_shape[2], src_shape[1]>>}

\* lines 376-377 for the corners whose third coordinate is not 0: the
\* normalized (col, row) as fractions
TransformedEdges(H, src_shape) ==
    {<<Frac(t[1], t[3]), Frac(t[2], t[3])>> :
        t \in {u \in {Apply(H, c[1], c[2]) : c \in SrcEdges(src_shape)} : u[3] # 0}}

\* a corner with third coordinate 0 and another coordinate not 0 divides to
\* +-inf, which passes one of the tests of lines 380-390 and makes that pad
\* inf; a corner (0, 0, 0) divides to nan, which passes none
HasInfiniteEdge(H, src_shape) ==
    \E c \in SrcEdges(src_shape) :
        LET t == Apply(H, c[1], c[2]) IN t[3] = 0 /\ (t[1] # 0 \/ t[2] # 0)

\* the pad taken from a corner with its sign, without abs()
PadUpSignedMutant(edges) ==
    LET below == {r[2] : r \in {q \in edges : FracLess(q[2], FracInt(1))}}
    IN  IF below = {} THEN <<0, 1>>
        ELSE CHOOSE y \in below : \A z \in below : FracLeq(y, z)

\* lines 380-382
PadUp(edges) ==
    FracMaxOver({FracAbs(q[2]) : q \in {r \in edges : FracLess(r[2], FracInt(1))}})

\* lines 387-389
PadLeft(edges) ==
    FracMaxOver({FracAbs(q[1]) : q \in {r \in edges : FracLess(r[1], FracInt(1))}})

\* lines 383-386
PadRight(edges, dst_cols) ==
    FracMaxOver({FracSub(q[1], FracInt(dst_cols)) :
                   q \in {r \in edges : FracLess(FracInt(dst_cols), r[1])}})

\* lines 390-393
PadDown(edges, dst_rows) ==
    FracMaxOver({FracSub(q[2], FracInt(dst_rows)) :
                   q \in {r \in edges : FracLess(FracInt(dst_rows), r[2])}})

\* lines 394-400 on the four pads: int() of their sums and of each pad
ShapeOf(dst_shape, up, down, left, right) ==
    [status |-> "ok",
     rows |-> FracTrunc(FracAdd(FracAdd(FracInt(dst_shape[1]), up), down)),
     cols |-> FracTrunc(FracAdd(FracAdd(FracInt(dst_shape[2]), right), left)),
     pad_up |-> FracTrunc(up), pad_down |-> FracTrunc(down),
     pad_left |-> FracTrunc(left), pad_right |-> FracTrunc(right)]

\* int(inf) at line 394 raises OverflowError
find_panorama_shape(src_shape, dst_shape, H) ==
    IF HasInfiniteEdge(H, src_shape)
    THEN [status |-> "OverflowError"]
    ELSE LET edges == TransformedEdges(H, src_shape)
         IN  ShapeOf(dst_shape, PadUp(edges), PadDown(edges, dst_shape[1]),
                     PadLeft(edges), PadRight(edges, dst_shape[2]))

(***************************************************************************)
(* Specification SpecShape: one call of find_panorama_shape.               *)
(***************************************************************************)
\* largest translation of a homography tried
MaxShift == 2

ShapeHomographies ==
    {Translation(tx, ty) : tx \in (0 - MaxShift)..MaxShift,
                           ty \in (0 - MaxShift)..MaxShift}
        \cup {<<1, 0, 0, 0, 1, 0, 0, 0, 2>>, <<6, 0, 0 - 9, 0, 1, 0, 0, 0, 2>>,
              <<0 - 1, 0, 0, 0, 2, 1, 1, 0, 1>>,
              <<1, 0, 0, 0, 1, 0, 1, 0, 0 - 1>>, <<0, 1, 0 - 1, 0, 0, 0, 0, 0, 0>>}

Shapes == (1..MaxSide) \X (1..MaxSide)

InitShape ==
    /\ pc = "call"
    /\ \E H \in ShapeHomographies, ss \in Shapes, ds \in Shapes :
         args = [homography |-> H, src_shape |-> ss, dst_shape |-> ds]
    /\ ret = NoRecord
    /\ Idle

FindPanoramaShape ==
    /\ pc = "call"
    /\ ret' = find_panorama_shape(args.src_shape, args.dst_shape, args.homography)
    /\ pc' = "done"
    /\ UNCHANGED <<args, i, mse_value, homography, iter, first_best>>

NextShape == FindPanoramaShape

SpecShape == InitShape /\ [][NextShape]_vars

(***************************************************************************)
(* Properties of find_panorama_shape, checked under SpecShape.             *)
(***************************************************************************)
\* C6: whenever find_panorama_shape returns, rows >= destination rows and
\* cols >= destination columns, the four pads are non-negative integers,
\* and rows and cols are the destination size plus the two pads of their
\* axis, up to the truncation of int(): the sum of two truncated pads is at
\* most 1 below the truncated sum.
C6_CanvasCoversDestination ==
    (pc = "done" /\ ret.status = "ok") =>
        /\ ret.rows >= args.dst_shape[1]
        /\ ret.cols >= args.dst_shape[2]
        /\ \A pad \in {ret.pad_up, ret.pad_down, ret.pad_left, ret.pad_right} :
              pad \in Nat
        /\ ret.rows - (args.dst_shape[1] + ret.pad_up + ret.pad_down) \in {0, 1}
        /\ ret.cols - (args.dst_shape[2] + ret.pad_left + ret.pad_right) \in {0, 1}

\* a call that returned with padding on both sides of an axis and a sum
\* that the truncation rounds apart
C6_Witness ==
    /\ pc = "done"
    /\ ret.status = "ok"
    /\ ret.pad_left > 0
    /\ ret.cols = args.dst_shape[2] + ret.pad_left + ret.pad_right + 1

\* C7: the returned padding makes the canvas contain every projected source
\* corner (col, row) in the 1-indexed convention, 1 <= col + pad_left <=
\* dst_cols + pad_left + pad_right and 1 <= row + pad_up <= dst_rows +
\* pad_up + pad_down, each pad being the largest excess of a corner in its
\* direction (below 1 for left and up, above the destination size for right
\* and down).
C7_CanvasContainsCorners ==
    (pc = "done" /\ ret.status = "ok") =>
        \A q \in TransformedEdges(args.homography, args.src_shape) :
            /\ FracLeq(FracInt(1), FracAdd(q[1], FracInt(ret.pad_left)))
            /\ FracLeq(q[1], FracInt(args.dst_shape[2] + ret.pad_right))
            /\ FracLeq(FracInt(1), FracAdd(q[2], FracInt(ret.pad_up)))
            /\ FracLeq(q[2], FracInt(args.dst_shape[1] + ret.pad_down))

(***************************************************************************)
(* BackwardWarper and PanoramaCompositor: compute_backward_mapping,        *)
(* add_translation_to_backward_homography, panorama.                       *)
(***************************************************************************)
\* what compute_homography can return for call a: the refined homography of
\* any accepted pass (every pass of the run may draw the same sample), or
\* UnboundLocalError when the run may consist of passes that are not accepted
RansacOutcomes(a) ==
    UNION {{[status |-> "ok", H |-> p.computed_homography] :
               p \in {q \in P : q.accepted}}
             \cup (IF \E q \in P : ~q.accepted
                   THEN {[status |-> "UnboundLocalError", H |-> Unbound]}
                   ELSE {}) :
           P \in {Passes(a)}}

\* np.dot(backward_homography, trans_matrix) (lines 424-429).  Line 432
\* divides the product by its Frobenius norm, a positive factor that the
\* normalized coordinates do not see; it is left out
add_translation_to_backward_homography(H, pad_left, pad_up) ==
    <<H[1], H[2], H[3] - H[1] * pad_left - H[2] * pad_up,
      H[4], H[5], H[6] - H[4] * pad_left - H[5] * pad_up,
      H[7], H[8], H[9] - H[7] * pad_left - H[8] * pad_up>>

\* the value griddata leaves where it has none (fill_value nan); pixels are
\* never negative, so -1 is free to stand for it
NaN == 0 - 1

\* scipy's griddata(..., method='cubic') on the full grid of source pixels,
\* asked at integer coordinates (x, y): the interpolant passes through the
\* data, and a query outside the convex hull of the grid has no value
Griddata(src, x, y) ==
    IF x >= 0 /\ x < src.cols /\ y >= 0 /\ y < src.rows
    THEN src.px[<<y, x>>]
    ELSE NaN

\* lines 317-333: the destination pixel at (row, col) is asked at
\* H . [col, row, 1], normalized and cast to int
compute_backward_mapping(H, src, shape, nan_as) ==
    [rows |-> shape[1], cols |-> shape[2],
     px |-> [q \in (0..(shape[1] - 1)) \X (0..(shape[2] - 1)) |->
               LET t == Apply(H, q[2], q[1])
               IN  Griddata(src, DivideAsInt(t[1], t[3], nan_as),
                            DivideAsInt(t[2], t[3], nan_as))]]

\* img[up : up + dst.rows, left : left + dst.cols] = dst
PlantImage(img, dst, up, left) ==
    [img EXCEPT !.px =
       [q \in DOMAIN @ |->
          IF /\ q[1] >= up /\ q[1] < up + dst.rows
             /\ q[2] >= left /\ q[2] < left + dst.cols
          THEN dst.px[<<q[1] - up, q[2] - left>>]
          ELSE @[q]]]

DestinationFirstMutant(backward_map, dst, up, left) ==
    PlantImage(PlantImage(Zeros(backward_map.rows, backward_map.cols), dst, up, left),
               backward_map, 0, 0)

\* lines 486-489: the zero canvas, the warped source over all of it, then
\* the destination image at its padded offset
Compose(backward_map, dst, up, left) ==
    PlantImage(PlantImage(Zeros(backward_map.rows, backward_map.cols),
                          backward_map, 0, 0),
               dst, up, left)

\* the bounds of np.clip at line 491
ByteMax == 255

\* np.clip(v, 0, 255).astype(np.uint8) for one value: nan passes np.clip and
\* its cast to uint8 is undefined in C; nan_byte is the byte the build gives
ClipToByte(v, nan_byte) ==
    IF v = NaN THEN nan_byte
    ELSE IF v < 0 THEN 0 ELSE IF v > ByteMax THEN ByteMax ELSE v

\* lines 482-491 once both homographies and the shape are there
Composite(a, sh, Hb, nan_as, nan_byte) ==
    LET translated == add_translation_to_backward_homography(Hb, sh.pad_left, sh.pad_up)
        backward_map == compute_backward_mapping(translated, a.src_image,
                                                 <<sh.rows, sh.cols>>, nan_as)
        img_panorama == Compose(backward_map, a.dst_image, sh.pad_up, sh.pad_left)
    IN  [status |-> "ok",
         image |-> [img_panorama EXCEPT !.px =
                      [q \in DOMAIN @ |-> ClipToByte(@[q], nan_byte)]],
         backward_map |-> backward_map,
         pad_up |-> sh.pad_up, pad_left |-> sh.pad_left]

Swapped(m) == [m EXCEPT !.match_p_src = m.match_p_dst, !.match_p_dst = m.match_p_src]

\* every way a call of panorama can end: an exception of one of its calls
\* ends it
panorama(a) ==
    UNION {IF f.status # "ok" THEN {[status |-> f.status]}
           ELSE UNION {IF sh.status # "ok" THEN {[status |-> sh.status]}
                       ELSE UNION {IF b.status # "ok" THEN {[status |-> b.status]}
                                   ELSE {Composite(a, sh, b.H, nan_as, nan_byte) :
                                           nan_as \in {"out", "zero"},
                                           nan_byte \in {0, ByteMax}} :
                                     b \in RansacOutcomes(Swapped(a.matches))} :
                         sh \in {find_panorama_shape(
                                   <<a.src_image.rows, a.src_image.cols>>,
                                   <<a.dst_image.rows, a.dst_image.cols>>, f.H)}} :
             f \in RansacOutcomes(a.matches)}

(***************************************************************************)
(* Specification SpecPanorama: one call of panorama.                       *)
(***************************************************************************)
\* the r x c image whose pixels, in row-major order, are 255, 254, ...
NumberedDown(r, c) ==
    [rows |-> r, cols |-> c,
     px |-> [q \in (0..(r - 1)) \X (0..(c - 1)) |-> ByteMax - (q[1] * c + q[2])]]

\* griddata needs a source grid that is no line: at least 2 x 2
PanoramaSources ==
    {Numbered(r, c, b) : r \in 2..MaxSide, c \in 2..MaxSide, b \in 0..MaxPixel}

PanoramaDestinations ==
    UNION {{Numbered(r, c, 1), NumberedDown(r, c)} :
             <<r, c>> \in (2..(MaxSide + 1)) \X (2..MaxSide)}

\* the square of matched points, with none, the last or all of the
\* destination points shifted
PanoramaMatches ==
    {m \in RansacInputs :
        /\ m.match_p_src = <<<<0, 0>>, <<Den, 0>>, <<0, Den>>, <<Den, Den>>, <<1, 1>>>>
        /\ \A j \in 1..3 : m.match_p_dst[j + 1][1] - m.match_p_src[j + 1][1]
                             = m.match_p_dst[1][1] - m.match_p_src[1][1]}

InitPanorama ==
    /\ pc = "call"
    /\ \E m \in PanoramaMatches, src \in PanoramaSources, dst \in PanoramaDestinations :
         args = [src_image |-> src, dst_image |-> dst, matches |-> m]
    /\ ret = NoRecord
    /\ Idle

Panorama ==
    /\ pc = "call"
    /\ ret' \in panorama(args)
    /\ pc' = "done"
    /\ UNCHANGED <<args, i, mse_value, homography, iter, first_best>>

NextPanorama == Panorama

SpecPanorama == InitPanorama /\ [][NextPanorama]_vars

(***************************************************************************)
(* Properties of panorama, checked under SpecPanorama.                     *)
(***************************************************************************)
\* the cells of the returned panorama that the destination image occupies
DestinationCells ==
    {q \in DOMAIN ret.image.px :
        /\ q[1] >= ret.pad_up /\ q[1] < ret.pad_up + args.dst_image.rows
        /\ q[2] >= ret.pad_left /\ q[2] < ret.pad_left + args.dst_image.cols}

C10_GapNeverMasked ==
    (pc = "done" /\ ret.status = "ok") =>
        \A q \in (DOMAIN ret.image.px) \ DestinationCells :
            ret.backward_map.px[q] # NaN

(***************************************************************************)
(* Properties of compute_homography, checked under SpecRansac.             *)
(***************************************************************************)
\* C1: when no pass of the loop was accepted (no candidate reached
\* fit_percent >= inliers_percent), the call still returns normally with a
\* fallback homography instead of ending in an error.
C1_FallbackReturned ==
    (pc = "done" /\ first_best = NoRecord) => ret.status = "ok"

\* C2: a homography whose score on the full correspondence set has no inlier
\* (dist_mse = 10 ** 9) is never the stored best result.
C2_ZeroInlierNeverStored ==
    homography # Unbound =>
        /\ mse_value # DistInt(Sentinel)
        /\ get_vectors_and_inliers(homography, args.match_p_src,
                                   args.match_p_dst, args.max_err) # {}

\* C3 (step): the best result changes only in a pass that was accepted, to
\* the refined homography of that pass, whose dist_mse is strictly lower
\* than the best so far.
C3_ReplacedOnlyByStrictlyLower ==
    [][(homography' # homography \/ mse_value' # mse_value) =>
          /\ pc = "loop"
          /\ iter'.accepted
          /\ homography' = iter'.computed_homography
          /\ mse_value' = iter'.dist_mse
          /\ DistLess(mse_value', mse_value)]_vars

\* C3 (result): a normal return hands back the refined homography of the
\* earliest accepted pass that attains the least dist_mse of all accepted
\* passes (first_best is that fold, kept beside the program's variables).
C3_ReturnsEarliestMinimum ==
    (pc = "done" /\ ret.status = "ok") =>
        /\ first_best # NoRecord
        /\ ret.H = first_best.H
        /\ mse_value = first_best.dist_mse

\* C3: over any sequence of passes the best result is replaced only by a
\* strictly better refined homography, so the earliest pass attaining the
\* minimum wins and a later pass with an equal dist_mse never replaces it.
C3_StrictImprovementFirstWins ==
    []C3_ReturnsEarliestMinimum /\ C3_ReplacedOnlyByStrictlyLower

\* an accepted pass tied the best dist_mse with another homography and the
\* best result was kept
C3_TieKeptWitness ==
    /\ iter # NoRecord
    /\ homography # Unbound
    /\ iter.accepted
    /\ iter.dist_mse = mse_value
    /\ iter.computed_homography # homography

(***************************************************************************)
(* Properties of test_homography, checked under SpecScore.                 *)
(***************************************************************************)
\* the reprojection error of correspondence j as the specification defines it:
\* the distance between the mapped source point and the destination point,
\* on the points as supplied (coordinates s / Den), squared
TrueErrBelow(H, s, d, e) ==
    LET mm == <<H[1] * s[1] + H[2] * s[2] + H[3] * Den,
                H[4] * s[1] + H[5] * s[2] + H[6] * Den,
                H[7] * s[1] + H[8] * s[2] + H[9] * Den>>
        ex == mm[1] * Den - d[1] * mm[3]
        ey == mm[2] * Den - d[2] * mm[3]
    IN  /\ mm[3] # 0
        /\ (ex * ex + ey * ey) < e * e * mm[3] * mm[3]



\* C8: fit_percent = |inliers| / N lies in [0, 1], a correspondence is an
\* inlier iff its reprojection error (mapped source point against destination
\* point) is strictly below max_err, and dist_mse is the sentinel 10 ** 9
\* iff there is no inlier.
C8_ScoreContract ==
    pc = "done" =>
        /\ ret.inliers = {j \in 1..Len(args.match_p_src) :
                            TrueErrBelow(args.homography, args.match_p_src[j],
                                         args.match_p_dst[j], args.max_err)}
        /\ ret.fit_percent = <<Cardinality(ret.inliers), Len(args.match_p_src)>>
        /\ ret.fit_percent[1] <= ret.fit_percent[2]
        /\ (ret.dist_mse = DistInt(Sentinel)) <=> (ret.inliers = {})

(***************************************************************************)
(* Properties of compute_homography_naive, checked under SpecNaive.        *)
(***************************************************************************)
\* C9 (as stated): a call with fewer than 4 correspondences fails with
\* InsufficientCorrespondences and returns no homography.
C9_FailsBelowFour ==
    (pc = "done" /\ Len(args.match_p_dst) < 4) =>
        (ret.status = "InsufficientCorrespondences" /\ ret.H = Unbound)

\* C9 (amended): a call with 1 to 3 correspondences raises nothing and
\* returns a 3x3 matrix, the last right-singular vector of the
\* under-determined 2N x 9 system.
C9_ReturnsMatrixBelowFour ==
    (pc = "done" /\ Len(args.match_p_dst) < 4) =>
        (ret.status = "ok" /\ ret.H \in FitHomographies /\ Len(ret.H) = 9)

C9_BelowFourWitness ==
    pc = "done" /\ Len(args.match_p_dst) < 4 /\ ret.status = "ok"

=============================================================================
